---------------------------- MODULE Spec2Model ----------------------------
(***************************************************************************)
(* Model of the SEO topic generator (seonew.py, with the variants seo.py   *)
(* and test.py): text normalisation, relevance scoring, article ranking,   *)
(* topic-idea generation, idea deduplication and trend extraction, and the *)
(* run of main() that strings them together.                               *)
(*                                                                         *)
(* Texts are TLA+ strings; a character is a string of length one.          *)
(* Only ASCII text is modelled.                                            *)
(***************************************************************************)
EXTENDS Integers, Sequences, FiniteSets, TLC

VARIABLES
    variant,            \* which script runs: "seonew", "seo" or "test"
    feeds,              \* environment: per feed url, the entries feedparser.parse returns
    pc,                 \* position of main() (or of the stand-alone clean_text call)
    blog,               \* the response requests.get gave for the blog page
    company_keywords,   \* main: result of get_existing_blog_keywords
    fetched,            \* fetch_and_score_articles: `articles` before the sort
    scored_articles,    \* main: result of fetch_and_score_articles
    tokFail,            \* ranked positions whose sent_tokenize call raised
    ideas,              \* suggest_seo_topics: `ideas` before deduplication
    ideaSrc,            \* for each element of ideas: <<ranked position, kind>> of its origin
    unique_ordered,     \* suggest_seo_topics: the deduplicated list when it returns
    seo_topics,         \* main: result of suggest_seo_topics
    trending_keywords,  \* main: Counter(all_keywords).most_common(20)
    sendCalls,          \* number of send_email calls made by main
    delivered,          \* whether the last send_email call got the message out
    text,               \* input of a stand-alone clean_text call
    tokens              \* result of a stand-alone clean_text call

vars == <<variant, feeds, pc, blog, company_keywords, fetched, scored_articles,
          tokFail, ideas, ideaSrc, unique_ordered, seo_topics, trending_keywords,
          sendCalls, delivered, text, tokens>>

-----------------------------------------------------------------------------
(* Characters and strings *)

UpperAlpha == "ABCDEFGHIJKLMNOPQRSTUVWXYZ"
LowerAlpha == "abcdefghijklmnopqrstuvwxyz"
DigitChars == "0123456789"

Char(s, i) == SubSeq(s, i, i)

CharsOf(s) == {Char(s, i) : i \in 1..Len(s)}

UpperSet == CharsOf(UpperAlpha)
LowerSet == CharsOf(LowerAlpha)
DigitSet == CharsOf(DigitChars)
\* white space (of the ASCII texts modelled, the blank)
SpaceSet == {" "}

\* str.lower() on one character
LowerMap == [c \in UpperSet |->
               Char(LowerAlpha, CHOOSE i \in 1..26 : Char(UpperAlpha, i) = c)]

LowerCh(c) == IF c \in UpperSet THEN LowerMap[c] ELSE c

RECURSIVE LowerStr(_)
\* str.lower()
LowerStr(s) == IF s = "" THEN "" ELSE LowerCh(Head(s)) \o LowerStr(Tail(s))

\* str.isupper() on one character
IsUpperCh(c) == c \in UpperSet

\* the regex class [a-zA-Z]
IsAlphaCh(c) == c \in UpperSet \cup LowerSet

\* the regex class \w
IsWordCh(c) == c \in UpperSet \cup LowerSet \cup DigitSet \cup {"_"}

\* `sub in s`
Contains(sub, s) ==
    \E i \in 0..(Len(s) - Len(sub)) : SubSeq(s, i + 1, i + Len(sub)) = sub

MaxOf(S) == CHOOSE m \in S : \A x \in S : x <= m

MinOf(S) == CHOOSE m \in S : \A x \in S : m <= x

Min2(a, b) == IF a <= b THEN a ELSE b

SeqToSet(s) == {s[i] : i \in 1..Len(s)}

Take(s, n) == SubSeq(s, 1, Min2(n, Len(s)))

-----------------------------------------------------------------------------
(* clean_text: re.findall(r'\b[a-zA-Z]{3,}\b', text.lower()) *)

\* the regex assertion \b at the gap before position p (1..Len(t)+1)
Boundary(t, p) ==
    LET before == p > 1 /\ IsWordCh(Char(t, p - 1))
        after  == p <= Len(t) /\ IsWordCh(Char(t, p))
    IN  before # after

RECURSIVE LetterRunEnd(_, _)
\* last position of the run of [a-zA-Z] that starts at i (i-1 when there is none)
LetterRunEnd(t, i) ==
    IF i <= Len(t) /\ IsAlphaCh(Char(t, i)) THEN LetterRunEnd(t, i + 1) ELSE i - 1

\* end of the (greedy, backtracking) match of \b[a-zA-Z]{3,}\b attempted at i; 0 when it fails
MatchEnd(t, i) ==
    LET run  == LetterRunEnd(t, i)
        ends == {e \in (i + 2)..run : Boundary(t, e + 1)}
    IN  IF Boundary(t, i) /\ ends # {} THEN MaxOf(ends) ELSE 0

RECURSIVE FindAll(_, _)
\* re.findall: leftmost non-overlapping matches, scanning from position i
FindAll(t, i) ==
    IF i > Len(t) THEN <<>>
    ELSE LET e == MatchEnd(t, i)
         IN  IF e # 0 THEN <<SubSeq(t, i, e)>> \o FindAll(t, e + 1)
             ELSE FindAll(t, i + 1)

RECURSIVE FindAllNoBoundary(_, _)
\* re.findall of the pattern [a-zA-Z]{3,}, without the word boundaries
FindAllNoBoundary(t, i) ==
    IF i > Len(t) THEN <<>>
    ELSE LET run == LetterRunEnd(t, i)
         IN  IF run >= i + 2 THEN <<SubSeq(t, i, run)>> \o FindAllNoBoundary(t, run + 1)
             ELSE FindAllNoBoundary(t, i + 1)

\* clean_text with the pattern [a-zA-Z]{3,}: a word with a digit is kept in part
clean_text_no_boundary(txt) == FindAllNoBoundary(LowerStr(txt), 1)

clean_text(txt) == FindAll(LowerStr(txt), 1)

-----------------------------------------------------------------------------
(* Configuration (seonew.py lines 26-59) *)

\* FEEDS: the configured feed urls (seven in the script, two here)
FEEDS == <<"feed1", "feed2">>

\* NUM_ARTICLES_TO_SCAN, the scan limit N (50 in the script)
NUM_ARTICLES_TO_SCAN == 2

\* NUM_SUGGESTIONS, the suggestion limit M (15 in the script)
NUM_SUGGESTIONS == 2

\* the argument of most_common in main, the trend limit K (20 in the script)
NUM_TRENDS == 2

\* most entries the feeds return in one run, all feeds together
MaxEntries == 3

\* longest text given to a stand-alone clean_text call
MaxTextLen == 7

EXTRA_STOPWORDS ==
    {"with", "from", "that", "this", "have", "will", "your", "their", "about", "into", "more",
     "been", "also", "over", "some", "what", "when", "where", "which", "using", "than", "then",
     "each", "into", "only", "very", "just", "them", "they", "such", "while", "there", "here",
     "http", "https", "www", "com", "blog", "like", "get", "make", "use", "new", "year",
     "need", "know", "see", "top", "best", "guide", "how", "why"}

\* stopwords.words('english') of the NLTK corpus, the words of three letters or more
\* (clean_text returns no shorter token)
NLTK_STOPWORDS ==
    {"myself", "our", "ours", "ourselves", "you", "your", "yours", "yourself", "yourselves",
     "him", "his", "himself", "she", "her", "hers", "herself", "its", "itself", "they", "them",
     "their", "theirs", "themselves", "what", "which", "who", "whom", "this", "that", "these",
     "those", "are", "was", "were", "been", "being", "have", "has", "had", "having", "does",
     "did", "doing", "the", "and", "but", "because", "until", "while", "for", "with", "about",
     "against", "between", "into", "through", "during", "before", "after", "above", "below",
     "from", "down", "out", "off", "over", "under", "again", "further", "then", "once", "here",
     "there", "when", "where", "why", "how", "all", "any", "both", "each", "few", "more", "most",
     "other", "some", "such", "nor", "not", "only", "own", "same", "than", "too", "very", "can",
     "will", "just", "don", "should", "now", "ain", "aren", "couldn", "didn", "doesn", "hadn",
     "hasn", "haven", "isn", "mightn", "mustn", "needn", "shan", "shouldn", "wasn", "weren",
     "won", "wouldn"}

STOPWORDS == NLTK_STOPWORDS \cup EXTRA_STOPWORDS

Variants == {"seonew", "seo", "test"}

-----------------------------------------------------------------------------
(* The feed entries of the environment *)

\* an absent summary of a feed entry
Absent == "<absent>"

\* entry.get("summary", default)
EntryGetSummary(e, default) == IF e.summary = Absent THEN default ELSE e.summary

SummaryA == "Seo is a b c d e f g. Web is a b c d e f. Tips a b c d e f g h."

SummaryB ==
    "web a b c d e f g h i j k l m n o p q r. Seo a b c d e f g h i j k l m n o p q r s."

\* feed entries without their link; published_parsed = 0 is a date that cannot be parsed
EntryKinds ==
    {[title |-> "Seo Tips",        summary |-> SummaryA, published_parsed |-> 1],
     [title |-> "How to Seo Tips", summary |-> SummaryA, published_parsed |-> 1],
     [title |-> "5 WAYS TO Web",   summary |-> SummaryB, published_parsed |-> 2],
     [title |-> "Seo Tips",        summary |-> Absent,   published_parsed |-> 0]}

\* the texts that occur in the entries: the operators below are tabulated on
\* them once, and computed directly on any other text
EntryTexts == {e.title \o " " \o EntryGetSummary(e, "") : e \in EntryKinds}

EntryTitles == {e.title : e \in EntryKinds}

EntrySummaries == {EntryGetSummary(e, "No summary available.") : e \in EntryKinds}

-----------------------------------------------------------------------------
(* Keyword extraction and scoring *)

RECURSIVE FilterStop(_)
\* [w for w in words if w not in STOPWORDS]
FilterStop(ws) ==
    IF ws = <<>> THEN <<>>
    ELSE IF Head(ws) \in STOPWORDS THEN FilterStop(Tail(ws))
         ELSE <<Head(ws)>> \o FilterStop(Tail(ws))

RECURSIVE Join(_, _)
\* sep.join(parts)
Join(parts, sep) ==
    IF parts = <<>> THEN ""
    ELSE IF Len(parts) = 1 THEN parts[1]
         ELSE parts[1] \o sep \o Join(Tail(parts), sep)

\* words = clean_text(text); keywords = [w for w in words if w not in STOPWORDS]
ExtractKeywords(txt) == FilterStop(clean_text(txt))

KeywordsTable == [t \in EntryTexts |-> ExtractKeywords(t)]

Keywords(txt) == IF txt \in EntryTexts THEN KeywordsTable[txt] ELSE ExtractKeywords(txt)

\* a failed fetch answered with a built-in keyword set
get_existing_blog_keywords_fallback(resp) ==
    IF ~resp.ok THEN {"seo", "tips"}
    ELSE LET full_text == Join(resp.titles, " ") \o Join(resp.descriptions, " ")
         IN  SeqToSet(ExtractKeywords(full_text))

\* resp is what requests.get(url, timeout=15) and raise_for_status gave: ok is
\* FALSE for a RequestException, else titles and descriptions hold the texts of
\* the selected h2 and p elements
get_existing_blog_keywords(resp) ==
    IF ~resp.ok THEN {}
    ELSE LET full_text == Join(resp.titles, " ") \o Join(resp.descriptions, " ")
         IN  SeqToSet(ExtractKeywords(full_text))

\* the overlap counted on the keyword list, a repeated keyword counting each time
ScoreWithRepeats(keywords, ck, v) ==
    Cardinality({i \in 1..Len(keywords) : keywords[i] \in ck})

\* seonew.py, seo.py: len(set(keywords).intersection(company_keywords));
\* test.py: the same "if company_keywords else 0"
Score(keywords, ck, v) ==
    IF v = "test"
    THEN (IF ck # {} THEN Cardinality(SeqToSet(keywords) \cap ck) ELSE 0)
    ELSE Cardinality(SeqToSet(keywords) \cap ck)

\* the pass with the start of time in place of datetime.now()
ScoreEntryEpoch(e, ck, v, now) ==
    LET published_dt == IF e.published_parsed = 0 THEN 0 ELSE e.published_parsed
        txt          == e.title \o " " \o EntryGetSummary(e, "")
        keywords     == Keywords(txt)
    IN  [title     |-> e.title,
         link      |-> e.link,
         published |-> published_dt,
         summary   |-> EntryGetSummary(e, "No summary available."),
         keywords  |-> keywords,
         score     |-> Score(keywords, ck, v)]

\* one pass of the inner loop of fetch_and_score_articles; published_parsed = 0
\* stands for a date that datetime(...) rejects, now for the reading of datetime.now()
ScoreEntry(e, ck, v, now) ==
    LET published_dt == IF e.published_parsed = 0 THEN now ELSE e.published_parsed
        txt          == e.title \o " " \o EntryGetSummary(e, "")
        keywords     == Keywords(txt)
    IN  [title     |-> e.title,
         link      |-> e.link,
         published |-> published_dt,
         summary   |-> EntryGetSummary(e, "No summary available."),
         keywords  |-> keywords,
         score     |-> Score(keywords, ck, v)]

RECURSIVE FlattenFeeds(_)
\* the order in which the two nested loops visit the entries
FlattenFeeds(fs) ==
    IF fs = <<>> THEN <<>> ELSE Head(fs) \o FlattenFeeds(Tail(fs))

-----------------------------------------------------------------------------
(* sorted(..., reverse=True) and list.sort(reverse=True) *)

\* tuple comparison a < b of two keys of the same length
RECURSIVE KeyLess(_, _)
KeyLess(a, b) ==
    IF a = <<>> THEN FALSE
    ELSE IF Head(a) # Head(b) THEN Head(a) < Head(b)
         ELSE KeyLess(Tail(a), Tail(b))

Reverse(s) == [i \in 1..Len(s) |-> s[Len(s) + 1 - i]]

\* p put into the ascending list after every element that is not greater
InsertAsc(sorted, p) ==
    LET k == Cardinality({i \in 1..Len(sorted) : ~KeyLess(p[1], sorted[i][1])})
    IN  SubSeq(sorted, 1, k) \o <<p>> \o SubSeq(sorted, k + 1, Len(sorted))

RECURSIVE SortAsc(_)
\* the stable ascending sort of <<key, item>> pairs
SortAsc(ps) ==
    IF ps = <<>> THEN <<>>
    ELSE InsertAsc(SortAsc(SubSeq(ps, 1, Len(ps) - 1)), ps[Len(ps)])

\* a descending sort that reverses the ascending one: equal keys come out reversed
SortReverseUnstable(ps) == Reverse(SortAsc(ps))

\* reverse=True: the list is reversed, sorted ascending (stable), and reversed again
SortReverse(ps) == Reverse(SortAsc(Reverse(ps)))

\* the key without the published timestamp
ArticleKeyScoreOnly(a) == <<a.score>>

\* key=lambda x: (x["score"], x["published"])
ArticleKey(a) == <<a.score, a.published>>

\* sorted(articles, key=..., reverse=True)
SortArticles(articles) ==
    LET ps == [i \in 1..Len(articles) |-> <<ArticleKey(articles[i]), articles[i]>>]
        r  == SortReverse(ps)
    IN  [i \in 1..Len(r) |-> r[i][2]]

\* fetch_and_score_articles before its sort: `articles` in fetch order
FetchArticles(fs, ck, v, now0, tick) ==
    LET es == FlattenFeeds(fs)
    IN  [i \in 1..Len(es) |-> ScoreEntry(es[i], ck, v, now0 + tick * (i - 1))]

-----------------------------------------------------------------------------
(* Sentences and words *)

RECURSIVE SkipSpaces(_, _)
SkipSpaces(s, i) ==
    IF i <= Len(s) /\ Char(s, i) \in SpaceSet THEN SkipSpaces(s, i + 1) ELSE i

RECURSIVE SentSplit(_, _, _)
\* the sentences of s from position start on, i being the scan position
SentSplit(s, start, i) ==
    IF i > Len(s)
    THEN (IF start <= Len(s) THEN <<SubSeq(s, start, Len(s))>> ELSE <<>>)
    ELSE IF Char(s, i) \in {".", "!", "?"} /\ (i = Len(s) \/ Char(s, i + 1) \in SpaceSet)
         THEN LET n == SkipSpaces(s, i + 1)
              IN  <<SubSeq(s, start, i)>> \o SentSplit(s, n, n)
         ELSE SentSplit(s, start, i + 1)

\* nltk's sent_tokenize on plain prose: a sentence ends with ".", "!" or "?"
\* followed by white space or the end of the text
sent_tokenize(s) == LET n == SkipSpaces(s, 1) IN SentSplit(s, n, n)

\* len(sent.split()): the number of maximal runs of non-space characters
WordCount(s) ==
    Cardinality({i \in 1..Len(s) :
                    /\ Char(s, i) \notin SpaceSet
                    /\ (i = 1 \/ Char(s, i - 1) \in SpaceSet)})

-----------------------------------------------------------------------------
(* suggest_seo_topics *)

\* question_starters + list_starters
Starters ==
    <<"How to", "Why", "What is", "The Ultimate Guide to", "A Beginner's Guide to",
      "Ways to", "Steps to", "Effective Strategies for", "Examples of">>

\* any(starter.lower() in clean_title.lower() for starter in ...)
TitleHasStarter(title) ==
    \E i \in 1..Len(Starters) : Contains(LowerStr(Starters[i]), LowerStr(title))

TitleMatchesTable == [t \in EntryTitles |-> TitleHasStarter(t)]

TitleMatches(title) ==
    IF title \in EntryTitles THEN TitleMatchesTable[title] ELSE TitleHasStarter(title)

\* an element of `ideas`: a string in seo.py, an (idea, link) tuple in the other two
MkIdea(v, txt, link) == IF v = "seo" THEN txt ELSE <<txt, link>>

\* the title ideas with the rewrite of a plain title left out
TitleIdeasNoRewrite(v, a) ==
    IF TitleMatches(a.title) THEN <<MkIdea(v, a.title, a.link)>> ELSE <<>>

\* the title ideas with the rewrites appended whether or not the title matches
TitleIdeasAlwaysRewrite(v, a) ==
    (IF TitleMatches(a.title) THEN <<MkIdea(v, a.title, a.link)>> ELSE <<>>)
    \o <<MkIdea(v, "How to " \o a.title, a.link),
         MkIdea(v, "The Ultimate Guide to " \o a.title, a.link)>>

\* "Idea 1": the title kept when it holds a starter; seonew.py rewrites it otherwise
TitleIdeas(v, a) ==
    IF TitleMatches(a.title) THEN <<MkIdea(v, a.title, a.link)>>
    ELSE IF v = "seonew"
         THEN <<MkIdea(v, "How to " \o a.title, a.link),
                MkIdea(v, "The Ultimate Guide to " \o a.title, a.link)>>
         ELSE <<>>

\* the question made of one sentence
SummaryIdeaText(v, sent) ==
    IF v = "seonew"
    THEN LET q == IF sent # "" /\ IsUpperCh(Char(sent, 1))
                  THEN LowerCh(Char(sent, 1)) \o Tail(sent) ELSE sent
         IN  "Why is " \o q \o " important for your business?"
    ELSE "Why is " \o LowerCh(Char(sent, 1)) \o Tail(sent) \o " Important for Your Business?"

\* the length test with both bounds included
GoodLengthInclusive(sent) == 8 <= WordCount(sent) /\ WordCount(sent) <= 20

\* 8 < len(sent.split()) < 20
GoodLength(sent) == 8 < WordCount(sent) /\ WordCount(sent) < 20

\* sentences[:2]
ScannedSentences(summary) == Take(sent_tokenize(summary), 2)

\* the sentences of the summary that pass "for sent in sentences[:2]: if 8 < ... < 20"
SelectSentences(summary) == SelectSeq(ScannedSentences(summary), GoodLength)

SentencesTable == [s \in EntrySummaries |-> SelectSentences(s)]

GoodSentences(summary) ==
    IF summary \in EntrySummaries THEN SentencesTable[summary] ELSE SelectSentences(summary)

\* "Idea 2": the try block; raises tells that sent_tokenize raised
SummaryIdeas(v, a, raises) ==
    IF raises THEN <<>>
    ELSE LET good == GoodSentences(a.summary)
         IN  [i \in 1..Len(good) |-> MkIdea(v, SummaryIdeaText(v, good[i]), a.link)]

\* one pass of the loop over articles[:NUM_ARTICLES_TO_SCAN]: the ideas appended
\* for the article at ranked position pos, each with where it comes from
ArticleIdeas(v, a, pos, raises) ==
    LET t == TitleIdeas(v, a)
        u == SummaryIdeas(v, a, raises)
    IN  [i \in 1..Len(t) |-> [idea |-> t[i], pos |-> pos, kind |-> "title"]]
        \o [i \in 1..Len(u) |-> [idea |-> u[i], pos |-> pos, kind |-> "summary"]]

\* articles[:NUM_ARTICLES_TO_SCAN]
ScanWindow(articles) == Take(articles, NUM_ARTICLES_TO_SCAN)

RECURSIVE GenerateFromAborting(_, _, _, _)
\* the loop left at the first sent_tokenize call that raises
GenerateFromAborting(v, arts, pos, failing) ==
    IF pos > Len(arts) THEN <<>>
    ELSE IF pos \in failing THEN ArticleIdeas(v, arts[pos], pos, TRUE)
    ELSE ArticleIdeas(v, arts[pos], pos, FALSE)
         \o GenerateFromAborting(v, arts, pos + 1, failing)

RECURSIVE GenerateFrom(_, _, _, _)
GenerateFrom(v, arts, pos, failing) ==
    IF pos > Len(arts) THEN <<>>
    ELSE ArticleIdeas(v, arts[pos], pos, pos \in failing)
         \o GenerateFrom(v, arts, pos + 1, failing)

\* the loop of suggest_seo_topics; failing holds the ranked positions whose
\* sent_tokenize call raises
GenerateIdeas(v, articles, failing) == GenerateFrom(v, ScanWindow(articles), 1, failing)

\* Counter(xs)[x]
CountOf(xs, x) == Cardinality({i \in 1..Len(xs) : xs[i] = x})

RECURSIVE FirstOccurrences(_, _, _)
\* the distinct elements of xs from position i on that are not in seen, in order
FirstOccurrences(xs, i, seen) ==
    IF i > Len(xs) THEN <<>>
    ELSE IF xs[i] \in seen THEN FirstOccurrences(xs, i + 1, seen)
         ELSE <<xs[i]>> \o FirstOccurrences(xs, i + 1, seen \cup {xs[i]})

\* the deduplication keeping the link of the last occurrence
UniqueIdeasLastLink(pairs) ==
    LET texts == [i \in 1..Len(pairs) |-> pairs[i][1]]
        firsts == FirstOccurrences(texts, 1, {})
        LinkOf(t) == pairs[MaxOf({i \in 1..Len(pairs) : pairs[i][1] = t})][2]
    IN  [i \in 1..Len(firsts) |-> <<firsts[i], LinkOf(firsts[i]), CountOf(texts, firsts[i])>>]

\* the loop "for idea, link in ideas: if idea not in seen": (idea, link, counter[idea])
UniqueIdeas(pairs) ==
    LET texts == [i \in 1..Len(pairs) |-> pairs[i][1]]
        firsts == FirstOccurrences(texts, 1, {})
        LinkOf(t) == pairs[MinOf({i \in 1..Len(pairs) : pairs[i][1] = t})][2]
    IN  [i \in 1..Len(firsts) |-> <<firsts[i], LinkOf(firsts[i]), CountOf(texts, firsts[i])>>]

\* the sort of unique_ordered left out
SortByCountMissing(us) == us

\* unique_ordered.sort(key=lambda x: x[2], reverse=True)
SortByCount(us) ==
    LET r == SortReverse([i \in 1..Len(us) |-> <<<<us[i][3]>>, us[i]>>])
    IN  [i \in 1..Len(r) |-> r[i][2]]

\* [(idea, link) for idea, link, _count in unique_ordered[:NUM_SUGGESTIONS]]
TopSuggestions(us) ==
    LET cut == Take(us, NUM_SUGGESTIONS)
    IN  [i \in 1..Len(cut) |-> <<cut[i][1], cut[i][2]>>]

\* most_common that orders the elements by first occurrence only
MostCommonUnsorted(xs, n) ==
    LET firsts == FirstOccurrences(xs, 1, {})
    IN  Take([i \in 1..Len(firsts) |-> <<firsts[i], CountOf(xs, firsts[i])>>], n)

\* Counter(xs).most_common(n): the (element, count) pairs in first-occurrence
\* order, sorted by count with reverse=True, and cut to n
MostCommon(xs, n) ==
    LET firsts == FirstOccurrences(xs, 1, {})
        items  == [i \in 1..Len(firsts) |-> <<firsts[i], CountOf(xs, firsts[i])>>]
        r      == SortReverse([i \in 1..Len(items) |-> <<<<items[i][2]>>, items[i]>>])
    IN  Take([i \in 1..Len(r) |-> r[i][2]], n)

\* the locals of suggest_seo_topics when it returns
SuggestSeoTopics(v, articles, failing) ==
    LET g  == GenerateIdeas(v, articles, failing)
        is == [i \in 1..Len(g) |-> g[i].idea]
        sr == [i \in 1..Len(g) |-> <<g[i].pos, g[i].kind>>]
    IN  IF v = "seonew"
        THEN LET us == SortByCount(UniqueIdeas(is))
             IN  [ideas |-> is, src |-> sr, unique |-> us, topics |-> TopSuggestions(us)]
        ELSE IF v = "test"
        THEN LET us == UniqueIdeas(is)
                 ui == [i \in 1..Len(us) |-> <<us[i][1], us[i][2]>>]
             IN  [ideas |-> is, src |-> sr, unique |-> ui,
                  topics |-> Take(ui, NUM_SUGGESTIONS)]
        ELSE LET mc == MostCommon(is, NUM_SUGGESTIONS)
             IN  [ideas |-> is, src |-> sr, unique |-> <<>>,
                  topics |-> [i \in 1..Len(mc) |-> mc[i][1]]]

RECURSIVE ConcatKeywords(_)
ConcatKeywords(arts) ==
    IF arts = <<>> THEN <<>> ELSE Head(arts).keywords \o ConcatKeywords(Tail(arts))

\* [kw for article in scored_articles[:NUM_ARTICLES_TO_SCAN] for kw in article['keywords']]
AllKeywords(articles) == ConcatKeywords(ScanWindow(articles))

\* Counter(all_keywords).most_common(20)
TrendingKeywords(articles) == MostCommon(AllKeywords(articles), NUM_TRENDS)

-----------------------------------------------------------------------------
(* The environment: what the network returns *)

\* the first reading of datetime.now() in a run, later than every parsed date
Now0 == 3

NoResponse == [ok |-> FALSE, titles |-> <<>>, descriptions |-> <<>>]

BlogResponses ==
    {NoResponse,
     [ok |-> TRUE, titles |-> <<"Seo Tips", "The Web">>, descriptions |-> <<>>],
     [ok |-> TRUE, titles |-> <<>>, descriptions |-> <<"Tips for you">>]}

RECURSIVE SeqsUpTo(_, _)
SeqsUpTo(S, n) ==
    IF n = 0 THEN {<<>>}
    ELSE LET P == SeqsUpTo(S, n - 1)
         IN  P \cup {Append(q, x) : q \in {r \in P : Len(r) = n - 1}, x \in S}

RECURSIVE TotalLen(_, _)
TotalLen(f, u) == IF u = 0 THEN 0 ELSE Len(f[u]) + TotalLen(f, u - 1)

\* every entry gets a link of its own
WithLinks(f) ==
    [u \in 1..Len(FEEDS) |->
        [k \in 1..Len(f[u]) |->
            [title |-> f[u][k].title, link |-> <<u, k>>,
             summary |-> f[u][k].summary,
             published_parsed |-> f[u][k].published_parsed]]]

FeedContents ==
    {WithLinks(f) : f \in {g \in [1..Len(FEEDS) -> SeqsUpTo(EntryKinds, MaxEntries)] :
                              TotalLen(g, Len(FEEDS)) <= MaxEntries}}

EmptyFeeds == [u \in 1..Len(FEEDS) |-> <<>>]

\* which sent_tokenize calls of a run over n scanned articles raise: none, all
\* (the punkt data is missing) or one
FailChoices(n) == {{}, 1..n} \cup {{p} : p \in 1..n}

TextAlphabet == {"a", "Z", "7", "_", " "}

RECURSIVE TextsUpTo(_)
TextsUpTo(n) ==
    IF n = 0 THEN {""}
    ELSE LET P == TextsUpTo(n - 1)
         IN  P \cup {q \o c : q \in {r \in P : Len(r) = n - 1}, c \in TextAlphabet}

-----------------------------------------------------------------------------
(* main() *)

Idle ==
    /\ blog = NoResponse
    /\ company_keywords = {}
    /\ fetched = <<>>
    /\ scored_articles = <<>>
    /\ tokFail = {}
    /\ ideas = <<>>
    /\ ideaSrc = <<>>
    /\ unique_ordered = <<>>
    /\ seo_topics = <<>>
    /\ trending_keywords = <<>>
    /\ sendCalls = 0
    /\ delivered = FALSE

\* a run of seonew.py
Init ==
    /\ variant = "seonew"
    /\ feeds \in FeedContents
    /\ pc = "start"
    /\ Idle
    /\ text = ""
    /\ tokens = <<>>

\* company_keywords = get_existing_blog_keywords(COMPANY_BLOG_URL)
GetExistingBlogKeywords ==
    /\ pc = "start"
    /\ \E resp \in BlogResponses :
          /\ blog' = resp
          /\ company_keywords' = get_existing_blog_keywords(resp)
    /\ pc' = "scraped"
    /\ UNCHANGED <<variant, feeds, fetched, scored_articles, tokFail, ideas, ideaSrc,
                   unique_ordered, seo_topics, trending_keywords, sendCalls, delivered,
                   text, tokens>>

\* scored_articles = fetch_and_score_articles(FEEDS, company_keywords); the clock
\* read by datetime.now() stands still (tick = 0) or advances between entries
FetchAndScoreArticles ==
    /\ pc = "scraped"
    /\ \E tick \in {0, 1} :
          LET articles == FetchArticles(feeds, company_keywords, variant, Now0, tick)
          IN  /\ fetched' = articles
              /\ scored_articles' = SortArticles(articles)
    /\ pc' = "scored"
    /\ UNCHANGED <<variant, feeds, blog, company_keywords, tokFail, ideas, ideaSrc,
                   unique_ordered, seo_topics, trending_keywords, sendCalls, delivered,
                   text, tokens>>

\* seo_topics_with_links = suggest_seo_topics(scored_articles)
SuggestTopics ==
    /\ pc = "scored"
    /\ \E failing \in FailChoices(Len(ScanWindow(scored_articles))) :
          LET r == SuggestSeoTopics(variant, scored_articles, failing)
          IN  /\ tokFail' = failing
              /\ ideas' = r.ideas
              /\ ideaSrc' = r.src
              /\ unique_ordered' = r.unique
              /\ seo_topics' = r.topics
    /\ pc' = "suggested"
    /\ UNCHANGED <<variant, feeds, blog, company_keywords, fetched, scored_articles,
                   trending_keywords, sendCalls, delivered, text, tokens>>

\* all_keywords = ...; trending_keywords = Counter(all_keywords).most_common(20)
ExtractTrends ==
    /\ pc = "suggested"
    /\ trending_keywords' = TrendingKeywords(scored_articles)
    /\ pc' = "trended"
    /\ UNCHANGED <<variant, feeds, blog, company_keywords, fetched, scored_articles,
                   tokFail, ideas, ideaSrc, unique_ordered, seo_topics, sendCalls,
                   delivered, text, tokens>>

\* if not seo_topics_with_links: print(...); return
ReturnNoTopics ==
    /\ pc = "trended"
    /\ seo_topics = <<>>
    /\ pc' = "done"
    /\ UNCHANGED <<variant, feeds, blog, company_keywords, fetched, scored_articles,
                   tokFail, ideas, ideaSrc, unique_ordered, seo_topics,
                   trending_keywords, sendCalls, delivered, text, tokens>>

\* send_email called again after a delivery that failed
SendEmailRetrying ==
    /\ pc = "trended"
    /\ seo_topics # <<>>
    /\ sendCalls' = sendCalls + 1
    /\ \E sent \in BOOLEAN :
          /\ delivered' = sent
          /\ pc' = IF sent THEN "done" ELSE "trended"
    /\ UNCHANGED <<variant, feeds, blog, company_keywords, fetched, scored_articles,
                   tokFail, ideas, ideaSrc, unique_ordered, seo_topics,
                   trending_keywords, text, tokens>>

\* build_email_content(...); send_email(subject, email_body): the SMTP exchange
\* succeeds or raises, and send_email catches what it raises
SendEmail ==
    /\ pc = "trended"
    /\ seo_topics # <<>>
    /\ sendCalls' = sendCalls + 1
    /\ \E sent \in BOOLEAN : delivered' = sent
    /\ pc' = "done"
    /\ UNCHANGED <<variant, feeds, blog, company_keywords, fetched, scored_articles,
                   tokFail, ideas, ideaSrc, unique_ordered, seo_topics,
                   trending_keywords, text, tokens>>

Next ==
    \/ GetExistingBlogKeywords
    \/ FetchAndScoreArticles
    \/ SuggestTopics
    \/ ExtractTrends
    \/ ReturnNoTopics
    \/ SendEmail

Spec == Init /\ [][Next]_vars

\* a run of seonew.py that goes on once the trends are extracted: what is left
\* of main() is the test of the suggestion list and, past it, the call
SpecLive ==
    /\ Init
    /\ [][Next]_vars
    /\ WF_vars(ReturnNoTopics)
    /\ WF_vars(SendEmail)

\* a run of any of the three scripts
InitVariants ==
    /\ variant \in Variants
    /\ feeds \in FeedContents
    /\ pc = "start"
    /\ Idle
    /\ text = ""
    /\ tokens = <<>>

SpecVariants == InitVariants /\ [][Next]_vars

-----------------------------------------------------------------------------
(* A stand-alone call of clean_text *)

InitClean ==
    /\ variant = "seonew"
    /\ feeds = EmptyFeeds
    /\ pc = "clean"
    /\ Idle
    /\ text \in TextsUpTo(MaxTextLen)
    /\ tokens = <<>>

CleanText ==
    /\ pc = "clean"
    /\ tokens' = clean_text(text)
    /\ pc' = "cleaned"
    /\ UNCHANGED <<variant, feeds, blog, company_keywords, fetched, scored_articles,
                   tokFail, ideas, ideaSrc, unique_ordered, seo_topics,
                   trending_keywords, sendCalls, delivered, text>>

NextClean == CleanText

SpecClean == InitClean /\ [][NextClean]_vars

-----------------------------------------------------------------------------
(* Properties *)

Ranked == pc \in {"scored", "suggested", "trended", "done"}

Suggested == pc \in {"suggested", "trended", "done"}

Trended == pc \in {"trended", "done"}

\* the links of the entries the feeds returned
FeedLinks == UNION {{feeds[u][k].link : k \in 1..Len(feeds[u])} : u \in 1..Len(FEEDS)}

\* link l1 was fetched before link l2: earlier feed, or same feed and earlier entry
FetchedBefore(l1, l2) == l1[1] < l2[1] \/ (l1[1] = l2[1] /\ l1[2] < l2[2])

\* C1: the ranked list is a permutation of the fetched articles, one per feed
\* entry, in descending order of score and, for equal scores, in descending
\* order of the published timestamp; so a higher score always comes first.
C1_RankedPermutationDescending ==
    Ranked =>
        /\ Len(scored_articles) = Len(fetched)
        /\ {fetched[i].link : i \in 1..Len(fetched)} = FeedLinks
        /\ Cardinality(FeedLinks) = Len(fetched)
        /\ \A i \in 1..Len(fetched) :
              Cardinality({j \in 1..Len(scored_articles) : scored_articles[j] = fetched[i]}) = 1
        /\ \A i, j \in 1..Len(scored_articles) :
              i < j =>
                \/ scored_articles[i].score > scored_articles[j].score
                \/ /\ scored_articles[i].score = scored_articles[j].score
                   /\ scored_articles[i].published >= scored_articles[j].published

\* three articles ranked, an older article with a higher score ahead of a newer one
C1_Witness ==
    /\ pc = "scored"
    /\ Len(scored_articles) = 3
    /\ \E i, j \in 1..Len(scored_articles) :
          /\ i < j
          /\ scored_articles[i].score > scored_articles[j].score
          /\ scored_articles[i].published < scored_articles[j].published

\* C2: the ranking is stable: two articles with the same score and the same
\* published timestamp keep their fetch order (feed order, then entry order).
C2_RankingStable ==
    Ranked =>
        \A i, j \in 1..Len(scored_articles) :
            (/\ i < j
             /\ scored_articles[i].score = scored_articles[j].score
             /\ scored_articles[i].published = scored_articles[j].published)
            => FetchedBefore(scored_articles[i].link, scored_articles[j].link)

\* two equally ranked articles of different feeds behind an article that the
\* sort moved ahead of them
C2_Witness ==
    /\ pc = "scored"
    /\ Len(scored_articles) = 3
    /\ scored_articles[1].link # fetched[1].link
    /\ scored_articles[2].score = scored_articles[3].score
    /\ scored_articles[2].published = scored_articles[3].published
    /\ scored_articles[2].link[1] < scored_articles[3].link[1]

RECURSIVE WordRuns(_, _, _)
\* the maximal runs of \w characters of s from position i on; start is the
\* first position of the run being read, 0 outside a run
WordRuns(s, start, i) ==
    IF i > Len(s)
    THEN (IF start # 0 THEN <<SubSeq(s, start, Len(s))>> ELSE <<>>)
    ELSE IF IsWordCh(Char(s, i))
         THEN WordRuns(s, IF start = 0 THEN i ELSE start, i + 1)
         ELSE (IF start # 0 THEN <<SubSeq(s, start, i - 1)>> ELSE <<>>)
              \o WordRuns(s, 0, i + 1)

IsPlainWord(w) == Len(w) >= 3 /\ \A i \in 1..Len(w) : IsAlphaCh(Char(w, i))

\* C10: clean_text returns, in the order of the text, the lower-cased words of
\* at least three letters; a word with a digit or an underscore, or a shorter
\* one, leaves no token; every token is made of the letters a-z only; the
\* empty text gives no token.
C10_CleanTextTokens ==
    pc = "cleaned" =>
        LET kept == SelectSeq(WordRuns(text, 0, 1), IsPlainWord)
        IN  /\ Len(tokens) = Len(kept)
            /\ \A k \in 1..Len(tokens) :
                  /\ tokens[k] = LowerStr(kept[k])
                  /\ Len(tokens[k]) >= 3
                  /\ \A i \in 1..Len(tokens[k]) : Char(tokens[k], i) \in LowerSet
            /\ (text = "" => tokens = <<>>)

\* two different tokens come out of a text with an upper-case letter
C10_Witness ==
    /\ pc = "cleaned"
    /\ Len(tokens) = 2
    /\ tokens[1] # tokens[2]
    /\ \E i \in 1..Len(text) : Char(text, i) \in UpperSet

\* the positions of `ideas` that hold the idea text t
Occurrences(t) == {i \in 1..Len(ideas) : ideas[i][1] = t}

\* the distinct idea texts of `ideas`
DistinctIdeaTexts == {ideas[i][1] : i \in 1..Len(ideas)}

\* idea text t1 ranks before t2: more frequent, or as frequent and seen first
IdeaBefore(t1, t2) ==
    \/ Cardinality(Occurrences(t1)) > Cardinality(Occurrences(t2))
    \/ /\ Cardinality(Occurrences(t1)) = Cardinality(Occurrences(t2))
       /\ MinOf(Occurrences(t1)) < MinOf(Occurrences(t2))

\* the ranked positions suggest_seo_topics scans
ScannedPositions ==
    1..(IF Len(scored_articles) < NUM_ARTICLES_TO_SCAN
        THEN Len(scored_articles) ELSE NUM_ARTICLES_TO_SCAN)

\* the positions of `ideas` emitted for ranked position pos, of the given kind
EmittedAt(pos, kind) == {i \in 1..Len(ideas) : ideaSrc[i] = <<pos, kind>>}

\* C4: in seonew.py the ideas are generated article by article in ranked
\* order, title ideas before summary ideas, each with the link of its article;
\* the deduplicated list holds each distinct idea text once, with the link of
\* its first occurrence and the number of its occurrences.
C4_DedupFirstLinkAndCount ==
    (Suggested /\ variant = "seonew") =>
        /\ \A i, j \in 1..Len(ideas) :
              i < j =>
                \/ ideaSrc[i][1] < ideaSrc[j][1]
                \/ /\ ideaSrc[i][1] = ideaSrc[j][1]
                   /\ ~(ideaSrc[i][2] = "summary" /\ ideaSrc[j][2] = "title")
        /\ \A i \in 1..Len(ideas) : ideas[i][2] = scored_articles[ideaSrc[i][1]].link
        /\ {unique_ordered[k][1] : k \in 1..Len(unique_ordered)} = DistinctIdeaTexts
        /\ Len(unique_ordered) = Cardinality(DistinctIdeaTexts)
        /\ \A k \in 1..Len(unique_ordered) :
              LET occ == Occurrences(unique_ordered[k][1])
              IN  /\ unique_ordered[k][2] = ideas[MinOf(occ)][2]
                  /\ unique_ordered[k][3] = Cardinality(occ)

\* an idea text generated twice, from two articles: the first link is kept
C4_Witness ==
    /\ pc = "suggested"
    /\ variant = "seonew"
    /\ \E k \in 1..Len(unique_ordered) :
          /\ unique_ordered[k][3] = 2
          /\ \E i \in Occurrences(unique_ordered[k][1]) :
                ideas[i][2] # unique_ordered[k][2]

\* C5: seonew.py returns the first min(M, number of distinct ideas) ideas in
\* the order "more frequent first, first seen first among equally frequent",
\* each with its first link: never more than M, none for no idea.
C5_TopSuggestions ==
    (Suggested /\ variant = "seonew") =>
        /\ Len(seo_topics) =
              (IF Cardinality(DistinctIdeaTexts) < NUM_SUGGESTIONS
               THEN Cardinality(DistinctIdeaTexts) ELSE NUM_SUGGESTIONS)
        /\ Len(seo_topics) <= NUM_SUGGESTIONS
        /\ (ideas = <<>> => seo_topics = <<>>)
        /\ \A k \in 1..Len(seo_topics) :
              /\ seo_topics[k][1] \in DistinctIdeaTexts
              /\ seo_topics[k][2] = ideas[MinOf(Occurrences(seo_topics[k][1]))][2]
        /\ \A k, m \in 1..Len(seo_topics) :
              k < m => IdeaBefore(seo_topics[k][1], seo_topics[m][1])
        /\ \A t \in DistinctIdeaTexts \ {seo_topics[k][1] : k \in 1..Len(seo_topics)} :
              \A k \in 1..Len(seo_topics) : IdeaBefore(seo_topics[k][1], t)

\* more than M distinct ideas, and a returned idea that was generated after an
\* idea that is cut off
C5_Witness ==
    /\ pc = "suggested"
    /\ variant = "seonew"
    /\ Cardinality(DistinctIdeaTexts) > NUM_SUGGESTIONS
    /\ Len(seo_topics) = NUM_SUGGESTIONS
    /\ \E t \in DistinctIdeaTexts :
          /\ \A k \in 1..Len(seo_topics) : seo_topics[k][1] # t
          /\ \E k \in 1..Len(seo_topics) :
                MinOf(Occurrences(t)) < MinOf(Occurrences(seo_topics[k][1]))

\* C6: for a scanned article whose title holds a lead phrase (in any case),
\* seonew.py emits exactly one title idea, the title itself with the link of
\* the article, and no rewrite of the title.
C6_MatchingTitleVerbatim ==
    (Suggested /\ variant = "seonew") =>
        \A pos \in ScannedPositions :
            TitleMatches(scored_articles[pos].title) =>
                /\ Cardinality(EmittedAt(pos, "title")) = 1
                /\ \A i \in EmittedAt(pos, "title") :
                      ideas[i] = <<scored_articles[pos].title, scored_articles[pos].link>>

\* a scanned title that holds "Ways to" in upper case
C6_Witness ==
    /\ pc = "suggested"
    /\ variant = "seonew"
    /\ \E pos \in ScannedPositions :
          /\ Contains("WAYS TO", scored_articles[pos].title)
          /\ EmittedAt(pos, "title") # {}

\* the phrases seonew.py puts before a plain title
RewritePhrases == {"How to ", "The Ultimate Guide to "}

\* C7: for a scanned article whose title holds no lead phrase, seonew.py emits
\* at least one title idea, each a fixed phrase followed by the title and with
\* the link of the article; an article ranked beyond position N gives no idea.
C7_PlainTitleRewritten ==
    (Suggested /\ variant = "seonew") =>
        /\ \A pos \in ScannedPositions :
              ~TitleMatches(scored_articles[pos].title) =>
                  /\ EmittedAt(pos, "title") # {}
                  /\ \A i \in EmittedAt(pos, "title") :
                        /\ ideas[i][2] = scored_articles[pos].link
                        /\ \E ph \in RewritePhrases :
                              ideas[i][1] = ph \o scored_articles[pos].title
        /\ \A i \in 1..Len(ideas) : ideaSrc[i][1] \in ScannedPositions
        /\ \A pos \in 1..Len(scored_articles) :
              pos > NUM_ARTICLES_TO_SCAN =>
                  \A i \in 1..Len(ideas) : ideas[i][2] # scored_articles[pos].link

\* a plain title inside the scan window and another one beyond it
C7_Witness ==
    /\ pc = "suggested"
    /\ variant = "seonew"
    /\ Len(scored_articles) > NUM_ARTICLES_TO_SCAN
    /\ ~TitleMatches(scored_articles[Len(scored_articles)].title)
    /\ \E pos \in ScannedPositions :
          /\ ~TitleMatches(scored_articles[pos].title)
          /\ Cardinality(EmittedAt(pos, "title")) = 2

\* the sentence with its first letter lower-cased when it is upper-case
Decapitalized(sent) ==
    IF Char(sent, 1) \in UpperSet THEN LowerCh(Char(sent, 1)) \o Tail(sent) ELSE sent

\* the questions C8 expects for a summary: one per sentence among the first
\* two that has 9 to 19 words
ExpectedQuestions(summary) ==
    LET ss == sent_tokenize(summary)
        Pick(k) == IF k <= Len(ss) /\ WordCount(ss[k]) \in 9..19
                   THEN <<"Why is " \o Decapitalized(ss[k]) \o " important for your business?">>
                   ELSE <<>>
    IN  Pick(1) \o Pick(2)

ExpectedQuestionsTable == [s \in EntrySummaries |-> ExpectedQuestions(s)]

\* C8: for a scanned article whose summary was split into sentences, seonew.py
\* emits one summary idea for each of the first two sentences that has more
\* than 8 and fewer than 20 words, and no other: at most two, in sentence
\* order, with the link of the article and the first letter lower-cased.
C8_SummaryIdeas ==
    (Suggested /\ variant = "seonew") =>
        \A pos \in ScannedPositions :
            LET em  == EmittedAt(pos, "summary")
                exp == ExpectedQuestionsTable[scored_articles[pos].summary]
            IN  /\ Cardinality(em) <= 2
                /\ pos \notin tokFail =>
                      /\ Cardinality(em) = Len(exp)
                      /\ \A n \in 1..Len(exp) :
                            /\ MinOf(em) + n - 1 \in em
                            /\ ideas[MinOf(em) + n - 1] = <<exp[n], scored_articles[pos].link>>

\* a scanned summary of a 9-word, an 8-word and a 9-word sentence gives one
\* idea, and one of a 19-word and a 20-word sentence gives one idea
C8_Witness ==
    /\ pc = "suggested"
    /\ variant = "seonew"
    /\ tokFail = {}
    /\ \E p, q \in ScannedPositions :
          /\ scored_articles[p].summary = SummaryA
          /\ scored_articles[q].summary = SummaryB
          /\ Cardinality(EmittedAt(p, "summary")) = 1
          /\ Cardinality(EmittedAt(q, "summary")) = 1
          /\ \A i \in EmittedAt(p, "summary") :
                ideas[i][1] = "Why is seo is a b c d e f g. important for your business?"

\* the places <<ranked position, index>> of the keywords of the scanned articles
KeywordPlaces ==
    UNION {{<<p, i>> : i \in 1..Len(scored_articles[p].keywords)} : p \in ScannedPositions}

PlacesOf(w) == {x \in KeywordPlaces : scored_articles[x[1]].keywords[x[2]] = w}

ScannedKeywords == {scored_articles[x[1]].keywords[x[2]] : x \in KeywordPlaces}

\* place x comes before place y in the concatenated keyword sequence
PlaceBefore(x, y) == x[1] < y[1] \/ (x[1] = y[1] /\ x[2] < y[2])

FirstPlace(w) == CHOOSE x \in PlacesOf(w) : \A y \in PlacesOf(w) : x = y \/ PlaceBefore(x, y)

\* keyword w1 ranks before w2: more frequent, or as frequent and seen first
KeywordBefore(w1, w2) ==
    \/ Cardinality(PlacesOf(w1)) > Cardinality(PlacesOf(w2))
    \/ /\ Cardinality(PlacesOf(w1)) = Cardinality(PlacesOf(w2))
       /\ PlaceBefore(FirstPlace(w1), FirstPlace(w2))

\* C9: the trend list holds the min(K, number of distinct keywords) first
\* keywords of the first N ranked articles in the order "more frequent first,
\* first seen first among equally frequent", each with its positive number of
\* occurrences in those articles: never more than K entries.
C9_TrendList ==
    Trended =>
        /\ Len(trending_keywords) =
              (IF Cardinality(ScannedKeywords) < NUM_TRENDS
               THEN Cardinality(ScannedKeywords) ELSE NUM_TRENDS)
        /\ Len(trending_keywords) <= NUM_TRENDS
        /\ \A k \in 1..Len(trending_keywords) :
              /\ trending_keywords[k][1] \in ScannedKeywords
              /\ trending_keywords[k][2] = Cardinality(PlacesOf(trending_keywords[k][1]))
              /\ trending_keywords[k][2] > 0
        /\ \A k, m \in 1..Len(trending_keywords) :
              k < m => KeywordBefore(trending_keywords[k][1], trending_keywords[m][1])
        /\ \A w \in ScannedKeywords \ {trending_keywords[k][1] : k \in 1..Len(trending_keywords)} :
              \A k \in 1..Len(trending_keywords) : KeywordBefore(trending_keywords[k][1], w)

\* more than K keywords in the window, the most frequent one not the first
\* one, and an article beyond the window with a keyword of its own
C9_Witness ==
    /\ pc = "trended"
    /\ Len(scored_articles) > NUM_ARTICLES_TO_SCAN
    /\ Cardinality(ScannedKeywords) > NUM_TRENDS
    /\ Len(trending_keywords) = NUM_TRENDS
    /\ FirstPlace(trending_keywords[1][1]) # <<1, 1>>
    /\ \E i \in 1..Len(scored_articles[Len(scored_articles)].keywords) :
          scored_articles[Len(scored_articles)].keywords[i] \notin ScannedKeywords

-----------------------------------------------------------------------------
(* Report delivery *)

\* C11: in every run of main, send_email is called exactly once when the
\* suggestion list is non-empty and never when it is empty: a run that has
\* extracted its trends reaches its end, and at the end the number of calls is 1
\* for a non-empty list and 0 for an empty one. The call is made only from the
\* point after ranking, idea generation and trend extraction, whose results
\* it leaves as they are; and no step follows the end of the run, so a
\* delivery that failed is not tried again.
C11_DeliveryOnce ==
    /\ [](/\ sendCalls <= 1
          /\ (pc # "done" => sendCalls = 0 /\ ~delivered)
          /\ (pc = "done" => sendCalls = (IF seo_topics # <<>> THEN 1 ELSE 0))
          /\ (delivered => sendCalls = 1))
    /\ [][/\ pc # "done"
          /\ (sendCalls' # sendCalls =>
                /\ pc = "trended" /\ pc' = "done"
                /\ sendCalls' = sendCalls + 1
                /\ scored_articles = SortArticles(fetched)
                /\ trending_keywords = TrendingKeywords(scored_articles)
                /\ UNCHANGED <<scored_articles, ideas, seo_topics, trending_keywords>>)]_vars
    /\ ((pc = "trended") ~> (pc = "done"))

\* a run has ended after one call of send_email that did not get the message out
C11_Witness == pc = "done" /\ sendCalls = 1 /\ ~delivered /\ seo_topics # <<>>

-----------------------------------------------------------------------------
(* Failure of the blog page fetch *)

\* C12: when the fetch of the blog page fails, get_existing_blog_keywords
\* returns the empty set and main goes through every later step: each fetched
\* entry is scored 0 and ranked, the ranked list being in descending order of
\* the published timestamp alone; every scanned article gets its title idea;
\* the trend list holds a keyword exactly when a scanned article has one; and
\* the run ends with one send_email call or, without suggestions, none.
C12_BlogFetchFailure ==
    (pc # "start" /\ pc # "clean" /\ pc # "cleaned" /\ ~blog.ok) =>
        /\ company_keywords = {}
        /\ Ranked =>
              /\ {scored_articles[i].link : i \in 1..Len(scored_articles)} = FeedLinks
              /\ Len(scored_articles) = Cardinality(FeedLinks)
              /\ \A i \in 1..Len(scored_articles) : scored_articles[i].score = 0
              /\ \A i, j \in 1..Len(scored_articles) :
                    i < j => scored_articles[i].published >= scored_articles[j].published
        /\ Suggested =>
              /\ \A pos \in ScannedPositions : EmittedAt(pos, "title") # {}
              /\ (seo_topics = <<>>) = (scored_articles = <<>>)
        /\ Trended =>
              {trending_keywords[i][1] : i \in 1..Len(trending_keywords)} \subseteq ScannedKeywords
              /\ (trending_keywords = <<>>) = (ScannedKeywords = {})
        /\ pc = "done" => sendCalls = (IF scored_articles = <<>> THEN 0 ELSE 1)

\* a run whose blog fetch failed has ended with its report sent; two of its
\* articles differ in their timestamps, and one has a keyword that the blog
\* page, had it been fetched, would have given
C12_Witness ==
    /\ pc = "done" /\ ~blog.ok /\ sendCalls = 1
    /\ \E i, j \in 1..Len(scored_articles) :
          /\ scored_articles[i].published > scored_articles[j].published
          /\ "seo" \in SeqToSet(scored_articles[j].keywords)
    /\ \E r \in BlogResponses : "seo" \in get_existing_blog_keywords(r)

-----------------------------------------------------------------------------
(* Entries whose publish date cannot be parsed *)

\* the feed entry an article was made from
EntryOf(a) == feeds[a.link[1]][a.link[2]]

\* the ranked positions of the articles whose entry has no parsable date
Undated == {i \in 1..Len(scored_articles) : EntryOf(scored_articles[i]).published_parsed = 0}

\* the ranked positions of the articles whose entry has a parsable date
Dated == {i \in 1..Len(scored_articles) : EntryOf(scored_articles[i]).published_parsed # 0}

\* every article of an undated entry carries a reading of the clock taken during
\* the fetch, a later entry never an earlier reading, and is ranked once
UndatedGetNow ==
    /\ \A i \in Undated :
          /\ scored_articles[i].published >= Now0
          /\ Cardinality({j \in 1..Len(scored_articles) :
                            scored_articles[j].link = scored_articles[i].link}) = 1
    /\ \A i \in Dated :
          scored_articles[i].published = EntryOf(scored_articles[i]).published_parsed
    /\ \A i, j \in Undated :
          FetchedBefore(scored_articles[i].link, scored_articles[j].link) =>
              scored_articles[i].published <= scored_articles[j].published
    /\ {scored_articles[i].link : i \in 1..Len(scored_articles)} = FeedLinks

\* C13 as stated: an entry whose date cannot be parsed gets the current time as
\* its published timestamp, is in the ranked list, and stands after every
\* article of equal score that has a parsed, earlier publish date.
C13_UndatedAtBottom ==
    Ranked =>
        /\ UndatedGetNow
        /\ \A i \in Undated : \A j \in Dated :
              (/\ scored_articles[j].score = scored_articles[i].score
               /\ scored_articles[j].published < scored_articles[i].published) => j < i

\* C13, amended: an entry whose date cannot be parsed gets the current time as
\* its published timestamp, is in the ranked list, and stands before every
\* article of equal score that has a parsed, earlier publish date: it is at
\* the top of them, not at the bottom.
C13_UndatedAtTop ==
    Ranked =>
        /\ UndatedGetNow
        /\ \A i \in Undated : \A j \in Dated :
              (/\ scored_articles[j].score = scored_articles[i].score
               /\ scored_articles[j].published < scored_articles[i].published) => i < j

\* an undated entry fetched after a dated one of equal score is ranked before it
C13_Witness ==
    /\ Ranked
    /\ \E i \in Undated : \E j \in Dated :
          /\ scored_articles[j].score = scored_articles[i].score
          /\ scored_articles[j].published < scored_articles[i].published
          /\ FetchedBefore(scored_articles[j].link, scored_articles[i].link)
          /\ i < j

-----------------------------------------------------------------------------
(* Failure of sentence splitting *)

\* what the loop of suggest_seo_topics appends when no sent_tokenize call raises
IdeasWithoutFailure == GenerateIdeas(variant, scored_articles, {})

\* an idea that is not a summary idea of an article whose sent_tokenize call raised
NotLost(x) == ~(x.pos \in tokFail /\ x.kind = "summary")

\* C14: when sent_tokenize raises for an article, suggest_seo_topics goes on:
\* the article gives no summary idea and still gives its title idea, and the
\* ideas of every other article, the later ones included, are those of a run
\* without the failure: the list of ideas is that run's list without the
\* summary ideas of the failing articles. The keywords of a failing article
\* are counted in the trends as those of any other scanned article.
C14_TokenizeFailureIsLocal ==
    /\ Suggested =>
          LET kept == SelectSeq(IdeasWithoutFailure, NotLost)
          IN  /\ ideas = [i \in 1..Len(kept) |-> kept[i].idea]
              /\ ideaSrc = [i \in 1..Len(kept) |-> <<kept[i].pos, kept[i].kind>>]
              /\ tokFail \subseteq ScannedPositions
              /\ \A pos \in tokFail :
                    /\ EmittedAt(pos, "summary") = {}
                    /\ EmittedAt(pos, "title") # {}
                    /\ \A i \in EmittedAt(pos, "title") :
                          ideas[i][2] = scored_articles[pos].link
    /\ Trended =>
          \A pos \in tokFail : \A k \in 1..Len(scored_articles[pos].keywords) :
              LET w == scored_articles[pos].keywords[k]
              IN  \/ \E i \in 1..Len(trending_keywords) :
                        trending_keywords[i] = <<w, Cardinality(PlacesOf(w))>>
                  \/ /\ Len(trending_keywords) = NUM_TRENDS
                     /\ \A i \in 1..Len(trending_keywords) :
                           trending_keywords[i][2] >= Cardinality(PlacesOf(w))

\* the first scanned article lost its summary ideas to a failure, the second
\* gave its own, and a keyword of the first is in the trend list
C14_Witness ==
    /\ Trended
    /\ tokFail = {1}
    /\ \E x \in SeqToSet(IdeasWithoutFailure) : x.pos = 1 /\ x.kind = "summary"
    /\ EmittedAt(1, "title") # {}
    /\ EmittedAt(2, "summary") # {}
    /\ \E i \in 1..Len(trending_keywords) :
          trending_keywords[i][1] \in SeqToSet(scored_articles[1].keywords)

-----------------------------------------------------------------------------
(* The three scripts *)

\* the text of an element of `ideas` or of a suggestion of script v
TextOf(v, x) == IF v = "seo" THEN x ELSE x[1]

\* what suggest_seo_topics of script v returns on the ranked list of the run,
\* with the same sent_tokenize calls raising
ResultOf(v) == SuggestSeoTopics(v, scored_articles, tokFail)

\* where the text of the i-th suggestion of script v occurs in its `ideas`
TopicOccurrences(v, i) ==
    LET r == ResultOf(v)
    IN  {k \in 1..Len(r.ideas) : TextOf(v, r.ideas[k]) = TextOf(v, r.topics[i])}

\* the ranked positions of the articles the suggestions of script v come from
TopicSources(v) ==
    LET r == ResultOf(v)
    IN  [i \in 1..Len(r.topics) |-> r.src[MinOf(TopicOccurrences(v, i))][1]]

\* the suggestions of script v are in descending order of frequency, equally
\* frequent ones in the order of their first occurrence
FrequencyOrdered(v) ==
    \A i, j \in 1..Len(ResultOf(v).topics) :
        i < j =>
            \/ Cardinality(TopicOccurrences(v, i)) > Cardinality(TopicOccurrences(v, j))
            \/ /\ Cardinality(TopicOccurrences(v, i)) = Cardinality(TopicOccurrences(v, j))
               /\ MinOf(TopicOccurrences(v, i)) < MinOf(TopicOccurrences(v, j))

\* script v, given the entries and the reference keywords of the run, ranks
\* the articles as the run did
SameRanking(v) ==
    \E tick \in {0, 1} :
        SortArticles(FetchArticles(feeds, company_keywords, v, Now0, tick)) = scored_articles

\* C15: seo.py, seonew.py and test.py differ only in the wording of the ideas
\* and in the guard on the reference keywords: on the entries and reference
\* keywords of a run each of them gives the same ranked list, and on that list
\* each returns as many suggestions as the script that ran, from the same
\* articles in the same order, which is descending frequency with ties in
\* first-occurrence order.
C15_VariantsAgree ==
    /\ Ranked => \A v \in Variants : SameRanking(v)
    /\ Suggested =>
          \A v \in Variants :
              /\ Len(ResultOf(v).topics) = Len(seo_topics)
              /\ TopicSources(v) = TopicSources(variant)
              /\ FrequencyOrdered(v)

=============================================================================
